---- MODULE Spec2Model ----
(***************************************************************************)
(* D* Lite planner (src/src/planner.cpp) on a king-move grid.              *)
(*                                                                         *)
(* Doubles are represented in fixed point: the double 1.0 is the integer   *)
(* Unit.  Every value the planner computes on the grids below is an        *)
(* integer combination of 1/2 and sqrt(2)/2, so the fixed-point sums are   *)
(* exact and ordered like the doubles they stand for, and two of them      *)
(* are within the epsilon of Math::equals exactly when they are equal.     *)
(***************************************************************************)
EXTENDS Integers, Sequences, FiniteSets, TLC

(* ------------------------------ bounds --------------------------------- *)
GridW == 3
GridH == 2
MaxUpdates == 2
MaxMoves == 2
MaxCap == 2

(* ------------------------- numeric predicates -------------------------- *)
Unit == 10000
SQRT2 == 14142
INFINITY == 1000000000
COST_UNWALKABLE == INFINITY
MAX_STEPS == 1000000

Equals(a, b) == a = b
Less(a, b) == a < b
Greater(a, b) == a > b
\* double addition: anything added to DBL_MAX-like INFINITY stays INFINITY
Plus(a, b) == IF a >= INFINITY \/ b >= INFINITY THEN INFINITY ELSE a + b
Abs(n) == IF n < 0 THEN -n ELSE n

(* --------------------------- cell graph -------------------------------- *)
Cells == (0 .. GridW - 1) \X (0 .. GridH - 1)
NULL == <<-1, -1>>
\* the eight king-move offsets, in the order of the neighbour array
NbrOffsets == << <<0, -1>>, <<1, -1>>, <<1, 0>>, <<1, 1>>,
                <<0, 1>>, <<-1, 1>>, <<-1, 0>>, <<-1, -1>> >>
NUM_NBRS == Len(NbrOffsets)
nbrs(u) ==
  [i \in 1 .. NUM_NBRS |->
     LET v == <<u[1] + NbrOffsets[i][1], u[2] + NbrOffsets[i][2]>>
     IN IF v \in Cells THEN v ELSE NULL]
NbrSet(u) == {nbrs(u)[i] : i \in 1 .. NUM_NBRS} \ {NULL}
CellCosts == {Unit, COST_UNWALKABLE}
\* the maps a planner is constructed on: the open grid, and the grid with
\* the column x = 1 sealed (a wall between start and goal)
OpenMap == [c \in Cells |-> Unit]
WallMap == [c \in Cells |-> IF c[1] = 1 THEN COST_UNWALKABLE ELSE Unit]
StartCell == <<0, 0>>
GoalCell == <<GridW - 1, 0>>

(* ------------------------------ state ---------------------------------- *)
VARIABLES
  cost,        \* Map::Cell::cost of every cell
  _km, _start, _goal, _last, _path,
  _cell_hash,  \* materialised cells -> [g, rhs]
  _open_list,  \* the multimap, as the sequence of its entries in order
  _open_hash,  \* cell -> key of the open-list entry its iterator points at
  steps_cap,   \* the step cap _compute compares attempts with
  op,          \* the public call that produced this state
  ret,         \* replan()'s return value (op = "replan")
  status,      \* "ok"; "diverged": replan() never returned; "undefined":
               \* the call executed undefined behaviour
  attempts,    \* loop bodies the last _compute() executed
  nupdates, nmoves

vars == <<cost, _km, _start, _goal, _last, _path, _cell_hash, _open_list,
          _open_hash, steps_cap, op, ret, status, attempts, nupdates, nmoves>>

\* the planner's fields and the map, as one value the operators transform
Planner == [cost |-> cost, km |-> _km, start |-> _start, goal |-> _goal,
            last |-> _last, path |-> _path, cell_hash |-> _cell_hash,
            open_list |-> _open_list, open_hash |-> _open_hash, ub |-> FALSE]

(* --------------------------- state store ------------------------------- *)
_cell(s, u) ==
  IF u \in DOMAIN s.cell_hash THEN s
  ELSE [s EXCEPT !.cell_hash = @ @@ (u :> [g |-> INFINITY, rhs |-> INFINITY])]

\* value read by _g(u) / _rhs(u); the read materialises u (see _cell)
_g(s, u) == IF u \in DOMAIN s.cell_hash THEN s.cell_hash[u].g ELSE INFINITY
_rhs(s, u) ==
  IF u = s.goal THEN 0
  ELSE IF u \in DOMAIN s.cell_hash THEN s.cell_hash[u].rhs ELSE INFINITY
\* _g(u, value) / _rhs(u, value)
_g_set(s, u, value) == [_cell(s, u) EXCEPT !.cell_hash[u].g = value]
_rhs_set(s, u, value) ==
  IF u = s.goal THEN s ELSE [_cell(s, u) EXCEPT !.cell_hash[u].rhs = value]

(* ------------------------ cost, heuristic, key ------------------------- *)
_cost(s, a, b) ==
  IF s.cost[a] = COST_UNWALKABLE \/ s.cost[b] = COST_UNWALKABLE
  THEN COST_UNWALKABLE
  ELSE LET dx == Abs(a[1] - b[1])
           dy == Abs(a[2] - b[2])
           scale == IF dx + dy > 1 THEN SQRT2 ELSE Unit
       IN (scale * ((s.cost[a] + s.cost[b]) \div 2)) \div Unit

_h(a, b) ==
  LET dx == Abs(a[1] - b[1])
      dy == Abs(a[2] - b[2])
      mn == IF dx > dy THEN dy ELSE dx
      mx == IF dx > dy THEN dx ELSE dy
  IN (SQRT2 - Unit) * mn + Unit * mx

_k(s, u) ==
  LET g == _g(s, u)
      rhs == _rhs(s, u)
      mn == IF Less(g, rhs) THEN g ELSE rhs
  IN <<Plus(Plus(mn, _h(s.start, u)), s.km), mn>>

KeyCompare(p1, p2) ==
  IF Less(p1[1], p2[1]) THEN TRUE
  ELSE IF Greater(p1[1], p2[1]) THEN FALSE
  ELSE IF Less(p1[2], p2[2]) THEN TRUE
  ELSE FALSE

(* ----------------------------- open list ------------------------------- *)
InsertAt(seq, p, e) == SubSeq(seq, 1, p - 1) \o <<e>> \o SubSeq(seq, p, Len(seq))
RemoveAt(seq, p) == SubSeq(seq, 1, p - 1) \o SubSeq(seq, p + 1, Len(seq))
\* std::multimap positions for key k: first entry not less than k, and
\* first entry greater than k
LowerBound(ol, k) == 1 + Cardinality({i \in 1 .. Len(ol) : KeyCompare(ol[i].k, k)})
UpperBound(ol, k) == 1 + Cardinality({i \in 1 .. Len(ol) : ~KeyCompare(k, ol[i].k)})
\* the entry _open_hash[u] points at
EntryPos(s, u) ==
  LET hit == {i \in 1 .. Len(s.open_list) :
                s.open_list[i].u = u /\ s.open_list[i].k = s.open_hash[u]}
  IN IF hit = {} THEN 0 ELSE CHOOSE i \in hit : \A j \in hit : i <= j

_list_insert(s, u, k) ==
  [s EXCEPT !.open_list = InsertAt(@, UpperBound(@, k), [k |-> k, u |-> u]),
            !.open_hash = (u :> k) @@ @]

_list_remove_keeps_hash(s, u) ==
  IF u \notin DOMAIN s.open_hash \/ EntryPos(s, u) = 0
  THEN [s EXCEPT !.ub = TRUE]
  ELSE [s EXCEPT !.open_list = RemoveAt(@, EntryPos(s, u))]

_list_remove(s, u) ==
  IF u \notin DOMAIN s.open_hash \/ EntryPos(s, u) = 0
  THEN [s EXCEPT !.ub = TRUE]   \* erase through an iterator that is no entry
  ELSE [s EXCEPT !.open_list = RemoveAt(@, EntryPos(s, u)),
                 !.open_hash = [c \in DOMAIN @ \ {u} |-> @[c]]]

\* erase, then insert with the old successor as the hint: the new entry goes
\* as close to just before the hint as the order allows
_list_update(s, u, k) ==
  IF u \notin DOMAIN s.open_hash \/ EntryPos(s, u) = 0
  THEN [s EXCEPT !.ub = TRUE]
  ELSE LET pos1 == EntryPos(s, u)
           rest == RemoveAt(s.open_list, pos1)
           lo == LowerBound(rest, k)
           hi == UpperBound(rest, k)
           p == IF pos1 < lo THEN lo ELSE IF pos1 > hi THEN hi ELSE pos1
       IN [s EXCEPT !.open_list = InsertAt(rest, p, [k |-> k, u |-> u]),
                    !.open_hash = (u :> k) @@ @]

(* ------------------------------ _update -------------------------------- *)
\* _update without the insertion of line 488
_update_no_insert(s0, u) ==
  LET s == _cell(s0, u)
      diff == ~Equals(_g(s, u), _rhs(s, u))
      exists == u \in DOMAIN s.open_hash
  IN IF diff /\ exists THEN _list_update(s, u, _k(s, u))
     ELSE IF ~diff /\ exists THEN _list_remove(s, u)
     ELSE s

_update(s0, u) ==
  LET s == _cell(s0, u)
      diff == ~Equals(_g(s, u), _rhs(s, u))
      exists == u \in DOMAIN s.open_hash
  IN IF diff /\ exists THEN _list_update(s, u, _k(s, u))
     ELSE IF diff /\ ~exists THEN _list_insert(s, u, _k(s, u))
     ELSE IF ~diff /\ exists THEN _list_remove(s, u)
     ELSE s

(* ------------------------------ _compute ------------------------------- *)
TakeNew(a, b) == b
Min(a, b) == IF b < a THEN b ELSE a

\* lines 206-226: g(u) := rhs(u), leave the list, relax every neighbour
RECURSIVE RelaxNbrs(_, _, _)
RelaxNbrs(s, u, i) ==
  IF i > NUM_NBRS THEN s
  ELSE LET v == nbrs(u)[i]
       IN IF v = NULL THEN RelaxNbrs(s, u, i + 1)
          ELSE LET s1 == IF v # s.goal
                         THEN _rhs_set(s, v, Min(_rhs(s, v),
                                                 Plus(_cost(s, v, u), _g(s, u))))
                         ELSE s
               IN RelaxNbrs(_update(s1, v), u, i + 1)

Overconsistent(s, u) ==
  RelaxNbrs(_list_remove(_g_set(s, u, _rhs(s, u)), u), u, 1)

\* lines 267-273: _update every neighbour
RECURSIVE UpdateNbrs(_, _, _)
UpdateNbrs(s, u, i) ==
  IF i > NUM_NBRS THEN s
  ELSE IF nbrs(u)[i] = NULL THEN UpdateNbrs(s, u, i + 1)
  ELSE UpdateNbrs(_update(s, nbrs(u)[i]), u, i + 1)

\* the while condition of line 192; evaluating it materialises start
LoopCond(s) ==
  \/ s.open_list # <<>> /\ KeyCompare(s.open_list[1].k, _k(s, s.start))
  \/ ~Equals(_rhs(s, s.start), _g(s, s.start))

\* line 195: ++attempts > MAX_STEPS, with done bodies executed so far
CapReachedLate(done, cap) == done > cap
CapReached(done, cap) == done + 1 > cap

RECURSIVE ComputeLoop(_, _, _)
ComputeLoop(s0, done, cap) ==
  LET s == _cell(s0, s0.start)
  IN IF s.ub \/ ~LoopCond(s) THEN [s |-> s, ret |-> TRUE, attempts |-> done]
     ELSE IF CapReached(done, cap) THEN [s |-> s, ret |-> FALSE, attempts |-> done]
     ELSE IF s.open_list = <<>>
     THEN \* begin() of an empty multimap is dereferenced
          [s |-> [s EXCEPT !.ub = TRUE], ret |-> TRUE, attempts |-> done + 1]
     ELSE LET u == s.open_list[1].u
              k_old == s.open_list[1].k
              k_new == _k(s, u)
          IN IF KeyCompare(k_old, k_new)
             THEN ComputeLoop(_list_update(s, u, k_new), done + 1, cap)
             ELSE IF Greater(_g(s, u), _rhs(s, u))
             THEN ComputeLoop(Overconsistent(s, u), done + 1, cap)
             ELSE LET s1 == _g_set(s, u, INFINITY)
                  IN IF u # s.goal
                     THEN \* tmp_g = g(u) is INFINITY: break (line 242)
                          [s |-> s1, ret |-> TRUE, attempts |-> done + 1]
                     ELSE ComputeLoop(UpdateNbrs(_update(s1, u), u, 1),
                                      done + 1, cap)

_compute(s, cap) ==
  IF s.open_list = <<>> THEN [s |-> s, ret |-> FALSE, attempts |-> 0]
  ELSE ComputeLoop(s, 0, cap)

\* the iterations one _compute() runs from s0, in order: the entry read from
\* the top of the open list (lines 198-199) and the branch taken: "A" stale
\* key (line 204), "B" overconsistent (lines 208-225), "C" underconsistent
\* (lines 229-273), "empty" when there is no entry to read
RECURSIVE ComputeSteps(_, _, _)
ComputeSteps(s0, done, cap) ==
  LET s == _cell(s0, s0.start)
  IN IF s.ub \/ ~LoopCond(s) \/ CapReached(done, cap) THEN <<>>
     ELSE IF s.open_list = <<>>
     THEN <<[branch |-> "empty", u |-> NULL, k |-> <<0, 0>>]>>
     ELSE LET u == s.open_list[1].u
              k_old == s.open_list[1].k
              k_new == _k(s, u)
              step(b) == [branch |-> b, u |-> u, k |-> k_old]
          IN IF KeyCompare(k_old, k_new)
             THEN <<step("A")>> \o ComputeSteps(_list_update(s, u, k_new), done + 1, cap)
             ELSE IF Greater(_g(s, u), _rhs(s, u))
             THEN <<step("B")>> \o ComputeSteps(Overconsistent(s, u), done + 1, cap)
             ELSE IF u # s.goal
             THEN <<step("C")>>
             ELSE <<step("C")>>
                  \o ComputeSteps(UpdateNbrs(_update(_g_set(s, u, INFINITY), u), u, 1),
                                  done + 1, cap)

\* the iterations of the _compute() that replan() would run now
StepsNow ==
  IF _open_list = <<>> THEN <<>> ELSE ComputeSteps(Planner, 0, steps_cap)

(* ------------------------------ replan --------------------------------- *)
\* line 437: a candidate replaces the minimum only when strictly cheaper
CheaperOrLater(tmp_cost, min_cost) == TRUE
Cheaper(tmp_cost, min_cost) == Less(tmp_cost, min_cost)

RECURSIVE MinSuccScan(_, _, _, _, _)
MinSuccScan(s, u, i, min_cell, min_cost) ==
  IF i > NUM_NBRS THEN min_cell
  ELSE LET v == nbrs(u)[i]
       IN IF v = NULL THEN MinSuccScan(s, u, i + 1, min_cell, min_cost)
          ELSE LET tmp_cost == _cost(s, u, v)
                   tmp_g == _g(s, v)
               IN IF Equals(tmp_cost, INFINITY) \/ Equals(tmp_g, INFINITY)
                  THEN MinSuccScan(s, u, i + 1, min_cell, min_cost)
                  ELSE IF Cheaper(Plus(tmp_cost, tmp_g), min_cost)
                  THEN MinSuccScan(s, u, i + 1, v, Plus(tmp_cost, tmp_g))
                  ELSE MinSuccScan(s, u, i + 1, min_cell, min_cost)

_min_succ(s, u) == MinSuccScan(s, u, 1, NULL, INFINITY)

\* _min_succ reads g of every neighbour, which materialises it
RECURSIVE TouchNbrs(_, _, _)
TouchNbrs(s, u, i) ==
  IF i > NUM_NBRS THEN s
  ELSE IF nbrs(u)[i] = NULL THEN TouchNbrs(s, u, i + 1)
  ELSE TouchNbrs(_cell(s, nbrs(u)[i]), u, i + 1)

\* the loop of lines 104-112.  g and the costs do not change while it runs,
\* so once it comes back to a cell it has left it repeats for ever: the
\* path list grows without bound and replan() never returns.
RECURSIVE Walk(_, _, _)
Walk(s, current, visited) ==
  IF current = s.goal THEN [s |-> s, ret |-> TRUE, status |-> "ok"]
  ELSE IF current = NULL THEN [s |-> s, ret |-> FALSE, status |-> "ok"]
  ELSE LET s1 == _cell(s, current)
       IN IF Equals(_g(s1, current), INFINITY)
          THEN [s |-> s1, ret |-> FALSE, status |-> "ok"]
          ELSE LET next == _min_succ(s1, current)
                   s2 == [TouchNbrs(s1, current, 1) EXCEPT !.path = Append(@, next)]
               IN IF next \in visited
                  THEN [s |-> s2, ret |-> FALSE, status |-> "diverged"]
                  ELSE Walk(s2, next, visited \cup {next})

replan(s0, cap) ==
  LET c == _compute([s0 EXCEPT !.path = <<>>], cap)
  IN IF c.s.ub
     THEN [s |-> c.s, ret |-> c.ret, status |-> "undefined", attempts |-> c.attempts]
     ELSE IF ~c.ret
     THEN [s |-> c.s, ret |-> FALSE, status |-> "ok", attempts |-> c.attempts]
     ELSE LET w == Walk([c.s EXCEPT !.path = <<c.s.start>>], c.s.start, {c.s.start})
          IN [s |-> w.s, ret |-> w.ret, status |-> w.status, attempts |-> c.attempts]

(* --------------------------- update, start ----------------------------- *)
update_keeps_last(s, u, c) ==
  IF u = s.goal THEN s
  ELSE LET s1 == [_cell(s, u) EXCEPT !.km = Plus(@, _h(s.last, s.start)),
                                     !.cost[u] = c]
       IN _update(s1, u)

update(s, u, c) ==
  IF u = s.goal THEN s
  ELSE LET s1 == [_cell(s, u) EXCEPT !.km = Plus(@, _h(s.last, s.start)),
                                     !.last = s.start,
                                     !.cost[u] = c]
       IN _update(s1, u)

start(s, u) == [s EXCEPT !.start = u]

\* Planner::goal(u): "hack implementation", only the pointer is replaced
goal(s, u) == [s EXCEPT !.goal = u]

(* --------------------------- construction ------------------------------ *)
\* Planner::Planner(map, start, goal)
Construct(map, st, gl) ==
  LET s0 == [cost |-> map, km |-> 0, start |-> st, goal |-> gl, last |-> st,
             path |-> <<>>, cell_hash |-> <<>>, open_list |-> <<>>,
             open_hash |-> <<>>, ub |-> FALSE]
      s1 == _cell(s0, gl)
  IN _list_insert(s1, gl, _k(s1, gl))

(* ------------------------------ actions -------------------------------- *)
Install(s) ==
  /\ cost' = s.cost
  /\ _km' = s.km
  /\ _start' = s.start
  /\ _goal' = s.goal
  /\ _last' = s.last
  /\ _path' = s.path
  /\ _cell_hash' = s.cell_hash
  /\ _open_list' = s.open_list
  /\ _open_hash' = s.open_hash

InitWith(cap) ==
  \E map \in {OpenMap, WallMap} :
    LET s == Construct(map, StartCell, GoalCell)
    IN /\ cost = s.cost
       /\ _km = s.km
       /\ _start = s.start
       /\ _goal = s.goal
       /\ _last = s.last
       /\ _path = s.path
       /\ _cell_hash = s.cell_hash
       /\ _open_list = s.open_list
       /\ _open_hash = s.open_hash
       /\ steps_cap = cap
       /\ op = "init"
       /\ ret = FALSE
       /\ status = "ok"
       /\ attempts = 0
       /\ nupdates = 0
       /\ nmoves = 0

Init == InitWith(MAX_STEPS)

Replan ==
  /\ status = "ok"
  /\ LET r == replan(Planner, steps_cap)
     IN /\ Install(r.s)
        /\ ret' = r.ret
        /\ status' = r.status
        /\ attempts' = r.attempts
  /\ op' = "replan"
  /\ UNCHANGED <<steps_cap, nupdates, nmoves>>

Update ==
  /\ status = "ok"
  /\ nupdates < MaxUpdates
  /\ \E u \in Cells, c \in CellCosts :
        LET s == update(Planner, u, c)
        IN /\ Install(s)
           /\ status' = IF s.ub THEN "undefined" ELSE "ok"
  /\ op' = "update"
  /\ ret' = FALSE
  /\ attempts' = 0
  /\ nupdates' = nupdates + 1
  /\ UNCHANGED <<steps_cap, nmoves>>

Start ==
  /\ status = "ok"
  /\ nmoves < MaxMoves
  /\ \E u \in Cells : Install(start(Planner, u))
  /\ op' = "start"
  /\ ret' = FALSE
  /\ attempts' = 0
  /\ nmoves' = nmoves + 1
  /\ UNCHANGED <<steps_cap, status, nupdates>>

Next == Replan \/ Update \/ Start

Spec == Init /\ [][Next]_vars

\* the same planner with the step cap as an input of _compute
InitCap == \E cap \in 0 .. MaxCap : InitWith(cap)
SpecCap == InitCap /\ [][Next]_vars

\* the same planner with the goal setter among the operations; a call of
\* goal(u) counts as a move
Goal ==
  /\ status = "ok"
  /\ nmoves < MaxMoves
  /\ \E u \in Cells : Install(goal(Planner, u))
  /\ op' = "goal"
  /\ ret' = FALSE
  /\ attempts' = 0
  /\ nmoves' = nmoves + 1
  /\ UNCHANGED <<steps_cap, status, nupdates>>

NextGoal == Next \/ Goal
SpecGoal == Init /\ [][NextGoal]_vars

(* ------------------- reference notions for the claims ------------------ *)
Returned == op = "replan" /\ status = "ok"
gOf(u) == _g(Planner, u)
rhsOf(u) == _rhs(Planner, u)
OpenSet == {_open_list[i].u : i \in 1 .. Len(_open_list)}

\* least cost of a walk from each cell to the goal on the costs of s
\* (Bellman-Ford)
RECURSIVE Relax(_, _, _)
Relax(s, d, n) ==
  IF n = 0 THEN d
  ELSE Relax(s, [c \in Cells |->
                   LET via == {Plus(_cost(s, c, v), d[v]) : v \in NbrSet(c)} \cup {d[c]}
                   IN CHOOSE m \in via : \A x \in via : m <= x], n - 1)
DistIn(s) ==
  Relax(s, [c \in Cells |-> IF c = s.goal THEN 0 ELSE INFINITY], Cardinality(Cells))
RouteExistsIn(s) == DistIn(s)[s.start] < INFINITY
RouteExists == RouteExistsIn(Planner)

RECURSIVE PathCostIn(_, _)
PathCostIn(s, p) ==
  IF Len(p) < 2 THEN 0
  ELSE Plus(_cost(s, p[1], p[2]), PathCostIn(s, Tail(p)))
IsWalk(p) ==
  /\ \A i \in 1 .. Len(p) : p[i] \in Cells
  /\ \A i \in 1 .. Len(p) - 1 : p[i + 1] \in NbrSet(p[i])
FromTo(p, a, b) == Len(p) >= 1 /\ p[1] = a /\ p[Len(p)] = b
Contains(p, c) == \E i \in 1 .. Len(p) : p[i] = c

(* ------------------------------- claims -------------------------------- *)
\* C1: whenever replan() returns true, path() is a king-move walk from
\* start() to goal() whose cost on the current cell costs is the least cost
\* of any walk from start() to goal().
C1_OptimalPath ==
  (Returned /\ ret) =>
     /\ IsWalk(_path) /\ FromTo(_path, _start, _goal)
     /\ PathCostIn(Planner, _path) = DistIn(Planner)[_start]

\* C2: after a replan() that returned true, path() starts with start(), ends
\* with goal(), and every step (u, v) goes to a non-null neighbour v of u
\* that minimises g(w) + cost(u, w) over the non-null neighbours w of u.
C2_GreedySteps ==
  (Returned /\ ret) =>
     /\ FromTo(_path, _start, _goal)
     /\ \A i \in 1 .. Len(_path) - 1 :
          LET u == _path[i]
              v == _path[i + 1]
          IN /\ u \in Cells
             /\ v \in NbrSet(u)
             /\ \A w \in NbrSet(u) :
                  Plus(gOf(v), _cost(Planner, u, v)) <= Plus(gOf(w), _cost(Planner, u, w))
C2_Witness == Returned /\ ret /\ Len(_path) >= 3 /\ nupdates > 0 /\ nmoves > 0

\* C3: right after a replan() that returned false, path() is empty.
C3_NoPartialPath == (Returned /\ ~ret) => _path = <<>>

\* C4: whenever no walk of finite cost leads from start() to goal(), replan()
\* returns false.
C4_UnreachableFails == (op = "replan" /\ ~RouteExists) => (status = "ok" /\ ~ret)

\* C5: a second replan() right after a replan(), with no other call in
\* between, returns the same boolean and leaves the same path().
C5_ReplanIdempotent ==
  Returned =>
     LET r == replan(Planner, steps_cap)
     IN r.status = "ok" /\ r.ret = ret /\ r.s.path = _path

\* C6: after a successful replan(), update(c, UNWALKABLE) for a cell c of the
\* path other than start and goal, with a finite route still existing, makes
\* the next replan() return true with a path from start() to goal() that
\* avoids c and costs no less than the previous path.
C6_ObstacleInsertion ==
  (Returned /\ ret) =>
     \A i \in 1 .. Len(_path) :
        LET c == _path[i]
            s1 == update(Planner, c, COST_UNWALKABLE)
            r == replan(s1, steps_cap)
        IN (c \in Cells \ {_start, _goal} /\ RouteExistsIn(s1)) =>
              /\ r.status = "ok" /\ r.ret
              /\ FromTo(r.s.path, _start, _goal)
              /\ ~Contains(r.s.path, c)
              /\ PathCostIn(r.s, r.s.path) >= PathCostIn(Planner, _path)

\* C7: after a replan() that returned false because the goal was
\* unreachable, update(c, walkable cost) for a wall cell c that opens a
\* finite route makes the next replan() return true with a path through c
\* that ends at goal().
C7_OpeningWall ==
  (Returned /\ ~ret /\ ~RouteExists) =>
     \A c \in Cells :
        LET s1 == update(Planner, c, Unit)
            r == replan(s1, steps_cap)
        IN (cost[c] = COST_UNWALKABLE /\ RouteExistsIn(s1)) =>
              /\ r.status = "ok" /\ r.ret
              /\ Contains(r.s.path, c)
              /\ Len(r.s.path) >= 1 /\ r.s.path[Len(r.s.path)] = _goal

\* C8: after a replan() that returned true with a path of at least two
\* cells, start(path[1]) followed by replan() returns true with a path that
\* begins at that cell and ends at goal().
C8_MovingStart ==
  (Returned /\ ret /\ Len(_path) >= 2) =>
     LET r == replan(start(Planner, _path[2]), steps_cap)
     IN r.status = "ok" /\ r.ret /\ FromTo(r.s.path, _path[2], _goal)

\* C9: one _compute() executes at most MAX_STEPS loop bodies, and when the
\* loop condition still holds after MAX_STEPS bodies replan() returns false.
C9_StepCap ==
  op = "replan" =>
     /\ attempts <= steps_cap
     /\ (attempts = steps_cap /\ LoopCond(_cell(Planner, _start))) =>
           (status = "ok" /\ ~ret)
C9_Witness ==
  /\ op = "replan" /\ attempts = steps_cap /\ steps_cap > 0
  /\ LoopCond(_cell(Planner, _start)) /\ ~ret

\* C10: between public calls a materialised cell is on the open list exactly
\* when its g and rhs differ (and every cell on the open list is
\* materialised).
C10_OpenIffInconsistent ==
  status = "ok" =>
     /\ OpenSet \subseteq DOMAIN _cell_hash
     /\ \A u \in DOMAIN _cell_hash : (u \in OpenSet) <=> ~Equals(gOf(u), rhsOf(u))
C10_Witness ==
  /\ Returned /\ nupdates > 0 /\ nmoves > 0
  /\ OpenSet # {}
  /\ \E u \in DOMAIN _cell_hash : u \notin OpenSet /\ gOf(u) < INFINITY

\* C11: reporting a cell's cost as the value it already has changes nothing
\* observable: update(u, cost of u) followed by replan() gives the same return
\* value and the same path() as replan() alone, from every reachable state
C11_NoOpUpdate ==
  status = "ok" =>
    \A u \in Cells :
      LET a == replan(update(Planner, u, cost[u]), steps_cap)
          b == replan(Planner, steps_cap)
      IN /\ a.status = b.status
         /\ a.ret = b.ret
         /\ a.s.path = b.s.path

\* C12: a cost change that is undone leaves the plan as it was: after a
\* successful replan() with path P, raising one cell to unwalkable and then
\* lowering it back to its original cost, both with update(), makes the next
\* replan() return true with path() equal to P
C12_CostRoundTrip ==
  (Returned /\ ret) =>
    \A u \in Cells :
      LET raised == update(Planner, u, COST_UNWALKABLE)
          r == replan(update(raised, u, cost[u]), steps_cap)
      IN r.status = "ok" /\ r.ret /\ r.s.path = _path

\* the entries that the iterations of the next _compute() take from the top
\* of the open list without re-queueing them (every branch but the stale key)
TakenNow == SelectSeq(StepsNow, LAMBDA e : e.branch \in {"B", "C"})

\* C13: within one _compute() call the keys of the entries taken from the top
\* of the open list by successive iterations that do not re-queue a stale key
\* never decrease under the key order, start moves since the keys were
\* computed included
C13_KeysNonDecreasing ==
  status = "ok" =>
    \A i \in 1 .. Len(TakenNow) - 1 :
      ~KeyCompare(TakenNow[i + 1].k, TakenNow[i].k)

\* C14: _compute() entered with an empty open list returns success without
\* running any iteration
C14_EmptyQueueSucceeds ==
  (status = "ok" /\ _open_list = <<>>) =>
    LET c == _compute(Planner, steps_cap)
    IN c.ret /\ c.attempts = 0

\* min over the non-null neighbours v of u of cost(u, v) + g(v), on the
\* current costs; infinity if there is none
Lookahead(u) ==
  LET vals == {Plus(_cost(Planner, u, v), gOf(v)) : v \in NbrSet(u)}
  IN IF vals = {} THEN INFINITY
     ELSE CHOOSE m \in vals : \A x \in vals : m <= x

\* C15: one-step lookahead: in every quiescent state, after update()
\* included, every materialised cell u other than the goal has
\* rhs(u) = min over its neighbours v of cost(u, v) + g(v) on current costs
C15_OneStepLookahead ==
  status = "ok" =>
    \A u \in DOMAIN _cell_hash \ {_goal} : rhsOf(u) = Lookahead(u)

\* C16: km bookkeeping: km = 0 and last = start after construction; update()
\* of a cell other than the goal adds h(last, start) to km and sets last to
\* start; replan(), start(u), goal(u) and update() of the goal leave km and
\* last as they are; so km never decreases
C16_KmBookkeeping ==
  /\ op = "init" => (_km = 0 /\ _last = _start)
  /\ status = "ok" =>
       /\ \A u \in Cells, c \in CellCosts :
            LET s == update(Planner, u, c)
            IN /\ u # _goal =>
                    (s.km = _km + _h(_last, _start) /\ s.last = _start)
               /\ u = _goal => (s.km = _km /\ s.last = _last)
               /\ s.km >= _km
       /\ LET r == replan(Planner, steps_cap).s
          IN r.km = _km /\ r.last = _last
       /\ \A u \in Cells :
            /\ start(Planner, u).km = _km /\ start(Planner, u).last = _last
            /\ goal(Planner, u).km = _km /\ goal(Planner, u).last = _last

\* an update() of a cell other than the goal has acted after start and goal
\* were moved
C16_Witness ==
  /\ op = "update"
  /\ _km > 0
  /\ _last = _start
  /\ _goal # GoalCell

\* the next _compute() reads the top of an empty open list
PeeksEmpty ==
  StepsNow # <<>> /\ StepsNow[Len(StepsNow)].branch = "empty"

\* C17: open-list structure, after any sequence of operations: each cell has
\* at most one entry in the open list, and _open_hash holds exactly the cells
\* that have an entry, each with the iterator of its own entry; remove and
\* update are never called for a cell without an entry (a call that is
\* undefined is the read of an empty list, not an erase)
C17_OpenListStructure ==
  /\ status # "undefined" =>
       /\ \A i, j \in 1 .. Len(_open_list) :
            _open_list[i].u = _open_list[j].u => i = j
       /\ DOMAIN _open_hash = OpenSet
       /\ \A u \in DOMAIN _open_hash : EntryPos(Planner, u) # 0
  /\ status = "ok" =>
       /\ \A u \in Cells, c \in CellCosts : ~update(Planner, u, c).ub
       /\ replan(Planner, steps_cap).status = "undefined" => PeeksEmpty

\* insert, update and remove have all acted and several entries are queued
C17_Witness ==
  /\ Returned /\ nupdates > 0 /\ attempts >= 3
  /\ Len(_open_list) >= 3

\* C18: the successor-following walk of replan() always terminates: it visits
\* no cell twice and ends at the goal or with a false return
C18_WalkTerminates ==
  /\ status # "diverged"
  /\ Returned =>
       \A i, j \in 1 .. Len(_path) : _path[i] = _path[j] => i = j

\* the planner states one public call can leave from the current state
AfterOneCall ==
  {update(Planner, u, c) : u \in Cells, c \in CellCosts}
    \cup {start(Planner, u) : u \in Cells}
    \cup {replan(Planner, steps_cap).s}

\* C19: with the goal unchanged no cell ever has g < rhs; the
\* underconsistent branch of _compute() is never executed; and no call, an
\* update() that raises a cost included, raises any g or rhs
C19_NeverUnderconsistent ==
  /\ \A u \in Cells : gOf(u) >= rhsOf(u)
  /\ status = "ok" =>
       /\ \A i \in 1 .. Len(StepsNow) : StepsNow[i].branch # "C"
       /\ \A s \in AfterOneCall : \A u \in Cells :
            _g(s, u) <= gOf(u) /\ _rhs(s, u) <= rhsOf(u)

\* replan() has returned after update() made unwalkable a cell that keeps
\* its finite g and rhs
C19_Witness ==
  /\ Returned /\ nupdates > 0 /\ attempts > 0
  /\ \E u \in Cells \ {_goal} :
       cost[u] = COST_UNWALKABLE /\ rhsOf(u) < INFINITY /\ gOf(u) < INFINITY

\* C20: _compute() never reads the top of an empty open list: whenever its
\* loop body is entered the open list is non-empty
C20_NeverPeeksEmpty ==
  status = "ok" => \A i \in 1 .. Len(StepsNow) : StepsNow[i].branch # "empty"

====
